---- MODULE Spec2Model ----
(***************************************************************************)
(* A model of two subsystems of go-spring:                                 *)
(*   - the Configer sorter (sortConfigers / sortConfigersByAfter /         *)
(*     getBeforeConfigers), a depth-first topological sort over units      *)
(*     constrained by before/after name lists;                             *)
(*   - the property binder of package conf (ParseTag, BindTag, resolve,    *)
(*     resolveString, bindSlice, BindValue).                               *)
(* Strings are sequences of one-character strings, so that scanning,       *)
(* slicing and searching are computed the way the Go code computes them.   *)
(***************************************************************************)
EXTENDS Integers, Sequences, FiniteSets, TLC

\* ------------------------------------------------------------------------
\* Bounds of the sorter model
\* ------------------------------------------------------------------------

\* total number of names in all before/after lists together
MaxEdges == 3

\* names of the registered units, by registration order
UnitNames == <<"A", "B", "C">>

\* number of registered Configers
NumUnits == Len(UnitNames)

\* a name no registered unit carries
UnknownName == "X"

Units == 1..NumUnits

RefNames == {UnitNames[i] : i \in Units} \cup {UnknownName}

\* the non-empty argument lists of Before(...) / After(...), of at most n names
RefLists(n) == UNION {[1..k -> RefNames] : k \in 1..n}

VARIABLES
    configers,   \* the registered units: <<[name, before, after]>>; a unit is its index
    phase,       \* "register" | "sorting" | "returned" | "panic"
    toSort,      \* list of units still to sort
    sorted,      \* list of units already sorted
    processing,  \* list of units being processed (the DFS chain)
    stack,       \* call stack of sortConfigersByAfter: <<[current, deps, e]>>
    cycle,       \* the chain of units reported by the panic
    props,       \* the Properties a bind call reads: key -> value
    arg,         \* the arguments of the bind call under study
    ret,         \* what the call returned; NotCalled before the call
    cond         \* the Conditional of a Configer: [nodes, op, calls]

sortVars == <<configers, phase, toSort, sorted, processing, stack, cycle>>

confVars == <<props, arg, ret, cond>>

vars == <<sortVars, confVars>>

\* ret before the call is made
NotCalled == [err |-> "not called"]

\* NewConditional(): no predicate, the operator of the next append is AND;
\* calls is the history of the builder calls made on the Configer
NewConditional == [nodes |-> <<>>, op |-> "and", calls |-> <<>>]

\* ------------------------------------------------------------------------
\* list helpers (container/list)
\* ------------------------------------------------------------------------

InList(l, c) == \E p \in 1..Len(l) : l[p] = c

\* position of the first element equal to c, 0 when there is none
RECURSIVE FirstIndex(_, _, _)
FirstIndex(l, c, p) ==
    IF p > Len(l) THEN 0
    ELSE IF l[p] = c THEN p
    ELSE FirstIndex(l, c, p + 1)

\* the list without its first element equal to c
RemoveFirst(l, c) ==
    LET p == FirstIndex(l, c, 1)
    IN  IF p = 0 THEN l
        ELSE SubSeq(l, 1, p - 1) \o SubSeq(l, p + 1, Len(l))

\* number of positions of l holding x
Count(l, x) == Cardinality({p \in 1..Len(l) : l[p] = x})

\* ------------------------------------------------------------------------
\* getBeforeConfigers
\* ------------------------------------------------------------------------

\* one entry for every position of names that equals name
Matches(names, name, c) == [q \in 1..Count(names, name) |-> c]

\* mutant: the after list of the current unit is not consulted
BeforeOfNoAfter(cs, c, current) ==
    Matches(cs[c].before, cs[current].name, c)

\* what the scan of unit c contributes to the result for current
BeforeOf(cs, c, current) ==
    Matches(cs[c].before, cs[current].name, c)
        \o Matches(cs[current].after, cs[c].name, c)

RECURSIVE ScanConfigers(_, _, _)
ScanConfigers(cs, current, c) ==
    IF c > Len(cs) THEN <<>>
    ELSE BeforeOf(cs, c, current) \o ScanConfigers(cs, current, c + 1)

getBeforeConfigers(cs, current) == ScanConfigers(cs, current, 1)

\* ------------------------------------------------------------------------
\* registration: Configer.Before / Configer.After
\* ------------------------------------------------------------------------

TotalRefs(cs) ==
    LET RECURSIVE Sum(_)
        Sum(i) == IF i > Len(cs) THEN 0
                  ELSE Len(cs[i].before) + Len(cs[i].after) + Sum(i + 1)
    IN  Sum(1)

\* the number of names registration may still add
RefsLeft == MaxEdges - TotalRefs(configers)

\* c.Before(names...), called once on a unit
Before(i, names) ==
    /\ phase = "register"
    /\ configers[i].before = <<>>
    /\ configers' = [configers EXCEPT ![i].before = names]
    /\ UNCHANGED <<phase, toSort, sorted, processing, stack, cycle>>
    /\ UNCHANGED confVars

\* c.After(names...), called once on a unit
After(i, names) ==
    /\ phase = "register"
    /\ configers[i].after = <<>>
    /\ configers' = [configers EXCEPT ![i].after = names]
    /\ UNCHANGED <<phase, toSort, sorted, processing, stack, cycle>>
    /\ UNCHANGED confVars

\* ------------------------------------------------------------------------
\* sortConfigers
\* ------------------------------------------------------------------------

\* entry of sortConfigers: the three lists are created
sortConfigers ==
    /\ phase = "register"
    /\ phase' = "sorting"
    /\ toSort' = [i \in Units |-> i]
    /\ sorted' = <<>>
    /\ processing' = <<>>
    /\ stack' = <<>>
    /\ UNCHANGED <<configers, cycle>>
    /\ UNCHANGED confVars

\* mutant: the back of the list instead of its front
BackOf(l) == l[Len(l)]

\* the unit the top-level call takes from toSort
FrontOf(l) == l[1]

Frame(c) == [current |-> c, deps |-> getBeforeConfigers(configers, c), e |-> 1]

\* the loop of sortConfigers calls sortConfigersByAfter with current == nil:
\* the front of toSort is removed and pushed on processing
SortNext ==
    /\ phase = "sorting"
    /\ stack = <<>>
    /\ Len(toSort) > 0
    /\ LET current == FrontOf(toSort)
       IN  /\ toSort' = RemoveFirst(toSort, current)
           /\ processing' = Append(processing, current)
           /\ stack' = <<Frame(current)>>
    /\ UNCHANGED <<configers, phase, sorted, cycle>>
    /\ UNCHANGED confVars

Top == stack[Len(stack)]

HasDep == /\ phase = "sorting"
          /\ Len(stack) > 0
          /\ Top.e <= Len(Top.deps)

Dep == Top.deps[Top.e]

\* mutant: only the unit being processed is compared
OnProcessingCurrentOnly(proc, c) ==
    IF Len(proc) > 0 /\ proc[Len(proc)] = c THEN Len(proc) ELSE 0

\* position on processing where the scan for c stops, 0 when it finds nothing
OnProcessing(proc, c) == FirstIndex(proc, c, 1)

\* mutant: the chain starts at the bottom of processing
CyclePathWhole(proc, p) == proc \o <<proc[p]>>

\* the chain printed by the panic: processing from p on, then the unit again
CyclePath(proc, p) == SubSeq(proc, p, Len(proc)) \o <<proc[p]>>

\* the dependency is on processing: panic "found cycle config"
FoundCycle ==
    /\ HasDep
    /\ OnProcessing(processing, Dep) > 0
    /\ phase' = "panic"
    /\ cycle' = CyclePath(processing, OnProcessing(processing, Dep))
    /\ UNCHANGED <<configers, toSort, sorted, processing, stack>>
    /\ UNCHANGED confVars

\* the dependency is not sorted and still in toSort: recursive call
Recurse ==
    /\ HasDep
    /\ OnProcessing(processing, Dep) = 0
    /\ ~InList(sorted, Dep) /\ InList(toSort, Dep)
    /\ processing' = Append(processing, Dep)
    /\ stack' = Append([stack EXCEPT ![Len(stack)].e = @ + 1], Frame(Dep))
    /\ UNCHANGED <<configers, phase, toSort, sorted, cycle>>
    /\ UNCHANGED confVars

\* the dependency is already sorted: nothing to do
SkipDep ==
    /\ HasDep
    /\ OnProcessing(processing, Dep) = 0
    /\ ~(~InList(sorted, Dep) /\ InList(toSort, Dep))
    /\ stack' = [stack EXCEPT ![Len(stack)].e = @ + 1]
    /\ UNCHANGED <<configers, phase, toSort, sorted, processing, cycle>>
    /\ UNCHANGED confVars

\* mutant: the finished unit stays in toSort
DropSortedKeep(l, c) == l

\* toSort once the finished unit has been taken out of it
DropSorted(l, c) == RemoveFirst(l, c)

\* all dependencies placed: current leaves processing and toSort, joins sorted
Finish ==
    /\ phase = "sorting"
    /\ Len(stack) > 0
    /\ Top.e > Len(Top.deps)
    /\ processing' = RemoveFirst(processing, Top.current)
    /\ toSort' = DropSorted(toSort, Top.current)
    /\ sorted' = Append(sorted, Top.current)
    /\ stack' = SubSeq(stack, 1, Len(stack) - 1)
    /\ UNCHANGED <<configers, phase, cycle>>
    /\ UNCHANGED confVars

\* toSort is empty: sortConfigers returns sorted
Return ==
    /\ phase = "sorting"
    /\ stack = <<>>
    /\ Len(toSort) = 0
    /\ phase' = "returned"
    /\ UNCHANGED <<configers, toSort, sorted, processing, stack, cycle>>
    /\ UNCHANGED confVars

InitSort ==
    /\ configers = [i \in Units |-> [name |-> UnitNames[i], before |-> <<>>, after |-> <<>>]]
    /\ phase = "register"
    /\ toSort = <<>>
    /\ sorted = <<>>
    /\ processing = <<>>
    /\ stack = <<>>
    /\ cycle = <<>>
    /\ props = <<>>
    /\ arg = <<>>
    /\ ret = NotCalled
    /\ cond = NewConditional

NextSort ==
    \/ \E i \in Units, names \in RefLists(RefsLeft) : Before(i, names)
    \/ \E i \in Units, names \in RefLists(RefsLeft) : After(i, names)
    \/ sortConfigers
    \/ SortNext
    \/ FoundCycle
    \/ Recurse
    \/ SkipDep
    \/ Finish
    \/ Return

SpecSort == InitSort /\ [][NextSort]_vars

\* ------------------------------------------------------------------------
\* Strings (package strings), as sequences of one-character strings;
\* indices are Go's: 0-based, -1 for "not found"
\* ------------------------------------------------------------------------

\* s[a:b]
Slice(s, a, b) == SubSeq(s, a + 1, b)

HasAt(s, sub, i) ==
    /\ i >= 0
    /\ i + Len(sub) <= Len(s)
    /\ Slice(s, i, i + Len(sub)) = sub

\* strings.Index
Index(s, sub) ==
    LET hits == {i \in 0..Len(s) : HasAt(s, sub, i)}
    IN  IF hits = {} THEN -1
        ELSE CHOOSE i \in hits : \A h \in hits : i <= h

\* strings.LastIndex
LastIndex(s, sub) ==
    LET hits == {i \in 0..Len(s) : HasAt(s, sub, i)}
    IN  IF hits = {} THEN -1
        ELSE CHOOSE i \in hits : \A h \in hits : i >= h

IsSpace(ch) == ch = " "

\* strings.TrimSpace
RECURSIVE TrimLeft(_)
TrimLeft(s) ==
    IF Len(s) > 0 /\ IsSpace(s[1]) THEN TrimLeft(Tail(s)) ELSE s

RECURSIVE TrimRight(_)
TrimRight(s) ==
    IF Len(s) > 0 /\ IsSpace(s[Len(s)])
    THEN TrimRight(SubSeq(s, 1, Len(s) - 1))
    ELSE s

TrimSpace(s) == TrimRight(TrimLeft(s))

\* strings.SplitN(s, sep, 2)
SplitN2(s, sep) ==
    LET i == Index(s, sep)
    IN  IF i < 0 THEN <<s>>
        ELSE <<Slice(s, 0, i), Slice(s, i + Len(sep), Len(s))>>

\* the literals the code uses
DollarBrace == <<"$", "{">>
CloseBrace == <<"}">>
ColonEq == <<":", "=">>
DoubleBar == <<"|", "|">>
ROOT == <<"R", "O", "O", "T">>
ANONYMOUS == <<"A", "N", "O", "N", "Y", "M", "O", "U", "S">>

\* ------------------------------------------------------------------------
\* ParsedTag, ParseTag, BindParam.BindTag
\* ------------------------------------------------------------------------

\* the zero ParsedTag
NoTag == [Key |-> <<>>, Def |-> <<>>, HasDef |-> FALSE, Splitter |-> <<>>]

\* ParsedTag.String
String(tag) ==
    DollarBrace \o tag.Key
        \o (IF tag.HasDef THEN ColonEq \o tag.Def ELSE <<>>)
        \o CloseBrace
        \o (IF tag.Splitter # <<>> THEN DoubleBar \o tag.Splitter ELSE <<>>)

\* mutant: the splitter name is stored as written
SplitterOfUntrimmed(tag, i, j) ==
    IF i > j THEN Slice(tag, i + 2, Len(tag)) ELSE <<>>

\* the Splitter field ParseTag stores: set only when "||" follows the last "}"
SplitterOf(tag, i, j) ==
    IF i > j THEN TrimSpace(Slice(tag, i + 2, Len(tag))) ELSE <<>>

\* ParseTag; err is "nil", "InvalidSyntax", or "panic" for the slice
\* tag[k+2:j] taken with k+2 > j (slice bounds out of range)
ParseTag(tag) ==
    LET i == LastIndex(tag, DoubleBar)
        j == LastIndex(tag, CloseBrace)
        k == Index(tag, DollarBrace)
    IN  IF i = 0 THEN [err |-> "InvalidSyntax", ret |-> NoTag]
        ELSE IF j <= 0 THEN [err |-> "InvalidSyntax", ret |-> NoTag]
        ELSE IF k < 0 THEN [err |-> "InvalidSyntax", ret |-> NoTag]
        ELSE IF k + 2 > j
             THEN [err |-> "panic",
                   ret |-> [NoTag EXCEPT !.Splitter = SplitterOf(tag, i, j)]]
        ELSE LET ss == SplitN2(Slice(tag, k + 2, j), ColonEq)
             IN  [err |-> "nil",
                  ret |-> [Key |-> ss[1],
                           Def |-> IF Len(ss) > 1 THEN ss[2] ELSE <<>>,
                           HasDef |-> Len(ss) > 1,
                           Splitter |-> SplitterOf(tag, i, j)]]

\* the zero BindParam
NoParam == [Key |-> <<>>, Path |-> <<>>, Tag |-> NoTag, Validate |-> <<>>]

\* mutant: an empty key is left empty
TagKeyKeepEmpty(key) ==
    IF key = ROOT THEN <<>> ELSE key

\* the key BindTag stores in the parsed tag
TagKey(key) ==
    IF key = ROOT THEN <<>>
    ELSE IF key = <<>> THEN ANONYMOUS
    ELSE key

\* BindParam.BindTag after "parsedTag, err := ParseTag(tag)": the error and
\* the param as the call leaves it
BindParsed(param, parsed, validate) ==
    IF parsed.err # "nil" THEN [err |-> parsed.err, param |-> param]
    ELSE LET parsedTag == [parsed.ret EXCEPT !.Key = TagKey(@)]
         IN  [err |-> "nil",
              param |-> [Key |-> IF param.Key = <<>> THEN parsedTag.Key
                                 ELSE IF parsedTag.Key # <<>>
                                 THEN param.Key \o <<".">> \o parsedTag.Key
                                 ELSE param.Key,
                         Path |-> param.Path,
                         Tag |-> parsedTag,
                         Validate |-> validate]]

\* BindParam.BindTag
BindTag(param, tag, validate) == BindParsed(param, ParseTag(tag), validate)

\* ------------------------------------------------------------------------
\* Properties: a flat mapping from keys to string values
\* ------------------------------------------------------------------------

Has(p, key) == key \in DOMAIN p

Get(p, key) == IF key \in DOMAIN p THEN p[key] ELSE <<>>

\* ------------------------------------------------------------------------
\* resolve, resolveString
\* ------------------------------------------------------------------------

\* mutant: the span closes on the first "}", whatever the nesting
RECURSIVE ScanFlat(_, _, _, _, _)
ScanFlat(s, i, count, start, end) ==
    IF i >= Len(s) THEN <<count, start, end>>
    ELSE IF s[i + 1] = "$"
    THEN IF i < Len(s) - 1 /\ s[i + 2] = "{"
         THEN ScanFlat(s, i + 1, 1, IF count = 0 THEN i ELSE start, end)
         ELSE ScanFlat(s, i + 1, count, start, end)
    ELSE IF s[i + 1] = "}"
    THEN IF count > 0
         THEN <<0, start, i>>
         ELSE ScanFlat(s, i + 1, count, start, end)
    ELSE ScanFlat(s, i + 1, count, start, end)

\* the scan loop of resolveString from position i on: <<count, start, end>>
RECURSIVE Scan(_, _, _, _, _)
Scan(s, i, count, start, end) ==
    IF i >= Len(s) THEN <<count, start, end>>
    ELSE IF s[i + 1] = "$"
    THEN IF i < Len(s) - 1 /\ s[i + 2] = "{"
         THEN Scan(s, i + 1, count + 1, IF count = 0 THEN i ELSE start, end)
         ELSE Scan(s, i + 1, count, start, end)
    ELSE IF s[i + 1] = "}"
    THEN IF count > 0
         THEN IF count - 1 = 0
              THEN <<0, start, i>>
              ELSE Scan(s, i + 1, count - 1, start, end)
         ELSE Scan(s, i + 1, count, start, end)
    ELSE Scan(s, i + 1, count, start, end)

ScanString(s) == Scan(s, 0, 0, -1, -1)

Ok(val) == [err |-> "nil", val |-> val]

Err(kind) == [err |-> kind, val |-> <<>>]

RECURSIVE resolve(_, _)
RECURSIVE resolveString(_, _)

resolve(p, param) ==
    IF Get(p, param.Key) # <<>> THEN resolveString(p, Get(p, param.Key))
    ELSE IF param.Tag.HasDef THEN resolveString(p, param.Tag.Def)
    ELSE IF Has(p, param.Key) THEN Ok(<<>>)
    ELSE Err("NotExist")

resolveString(p, s) ==
    LET scan == ScanString(s)
        count == scan[1]
        start == scan[2]
        end == scan[3]
    IN  IF start < 0 THEN Ok(s)
        ELSE IF end < 0 \/ count > 0 THEN Err("InvalidSyntax")
        ELSE LET bound == BindTag(NoParam, Slice(s, start, end + 1), <<>>)
             IN  IF bound.err = "panic" THEN Err("panic")
                 ELSE LET s1 == resolve(p, bound.param)
                      IN  IF s1.err # "nil" THEN Err(s1.err)
                          ELSE LET s2 == resolveString(p, Slice(s, end + 1, Len(s)))
                               IN  IF s2.err # "nil" THEN Err(s2.err)
                                   ELSE Ok(Slice(s, 0, start) \o s1.val \o s2.val)

\* ------------------------------------------------------------------------
\* strconv: ParseUint / ParseInt with base 0, ParseFloat, ParseBool, on
\* strings of decimal digits, signs and a point
\* ------------------------------------------------------------------------

DigitChars == <<"0", "1", "2", "3", "4", "5", "6", "7", "8", "9">>

\* the value of a digit, -1 for any other character
DigitVal(ch) ==
    IF \E d \in 1..Len(DigitChars) : DigitChars[d] = ch
    THEN (CHOOSE d \in 1..Len(DigitChars) : DigitChars[d] = ch) - 1
    ELSE -1

\* the number written by the digits s in the base, -1 when s is no such number
RECURSIVE ParseDigits(_, _, _)
ParseDigits(s, base, acc) ==
    IF s = <<>> THEN acc
    ELSE IF DigitVal(s[1]) < 0 \/ DigitVal(s[1]) >= base THEN -1
    ELSE ParseDigits(Tail(s), base, acc * base + DigitVal(s[1]))

\* base 0: a leading "0" announces an octal number
BaseOf(s) == IF Len(s) > 1 /\ s[1] = "0" THEN 8 ELSE 10

Parsed(v) == [ok |-> TRUE, v |-> v]

NotParsed == [ok |-> FALSE, v |-> 0]

ParseUint(s) ==
    IF s = <<>> THEN NotParsed
    ELSE LET n == ParseDigits(s, BaseOf(s), 0)
         IN  IF n < 0 THEN NotParsed ELSE Parsed(n)

ParseInt(s) ==
    IF s = <<>> THEN NotParsed
    ELSE IF s[1] \in {"+", "-"}
    THEN LET u == ParseUint(Tail(s))
         IN  IF ~u.ok THEN NotParsed
             ELSE Parsed(IF s[1] = "-" THEN 0 - u.v ELSE u.v)
    ELSE ParseUint(s)

RECURSIVE DropZeros(_)
DropZeros(s) ==
    IF Len(s) > 0 /\ s[Len(s)] = "0" THEN DropZeros(SubSeq(s, 1, Len(s) - 1)) ELSE s

\* a decimal float: digits, optionally a point and digits; its value is
\* <<mantissa, number of fraction digits>> without trailing zeros
ParseFloat(s) ==
    LET neg == Len(s) > 0 /\ s[1] = "-"
        body == IF Len(s) > 0 /\ s[1] \in {"+", "-"} THEN Tail(s) ELSE s
        dot == Index(body, <<".">>)
        whole == IF dot < 0 THEN body ELSE Slice(body, 0, dot)
        frac == IF dot < 0 THEN <<>> ELSE DropZeros(Slice(body, dot + 1, Len(body)))
        hasDigit == IF dot < 0 THEN Len(body) > 0 ELSE Len(body) > 1
        n == ParseDigits(whole \o frac, 10, 0)
    IN  IF ~hasDigit \/ n < 0 THEN NotParsed
        ELSE Parsed(<<IF neg THEN 0 - n ELSE n, Len(frac)>>)

TrueWords == {<<"1">>, <<"t">>, <<"T">>, <<"T", "R", "U", "E">>,
              <<"t", "r", "u", "e">>, <<"T", "r", "u", "e">>}

FalseWords == {<<"0">>, <<"f">>, <<"F">>, <<"F", "A", "L", "S", "E">>,
               <<"f", "a", "l", "s", "e">>, <<"F", "a", "l", "s", "e">>}

ParseBool(s) ==
    IF s \in TrueWords THEN Parsed(TRUE)
    ELSE IF s \in FalseWords THEN Parsed(FALSE)
    ELSE NotParsed

\* ------------------------------------------------------------------------
\* Types and values (reflect), converters, validators
\* ------------------------------------------------------------------------

\* a type is [kind |-> k], a slice type [kind |-> "slice", elem |-> type];
\* "level" is a type with a registered converter
UintKinds == {"uint", "uint8"}
IntKinds == {"int", "int64"}
FloatKinds == {"float64"}
LeafKinds == UintKinds \cup IntKinds \cup FloatKinds \cup {"string", "bool", "level"}

\* utils.IsValueType
IsValueType(t) == t.kind \in LeafKinds \cup {"slice", "array", "complex"}

\* utils.IsPrimitiveValueType
IsPrimitiveValueType(t) ==
    t.kind \in UintKinds \cup IntKinds \cup FloatKinds \cup {"string", "bool"}

\* converters[t] != nil
HasConverter(t) == t.kind = "level"

\* the registered converter of "level": a level is a single digit below 3
Converter(t, val) ==
    IF Len(val) = 1 /\ DigitVal(val[1]) >= 0 /\ DigitVal(val[1]) < 3
    THEN Parsed(<<"level", DigitVal(val[1])>>)
    ELSE NotParsed

\* a value is the pair of its kind and what it holds
Value(kind, v) == [kind |-> kind, v |-> v]

\* reflect.New(t).Elem()
Zero(t) ==
    CASE t.kind = "string" -> Value(t.kind, <<>>)
      [] t.kind \in UintKinds \cup IntKinds -> Value(t.kind, 0)
      [] t.kind \in FloatKinds -> Value(t.kind, <<0, 0>>)
      [] t.kind = "bool" -> Value(t.kind, FALSE)
      [] t.kind = "level" -> Value(t.kind, <<"level", 0>>)
      [] OTHER -> Value(t.kind, <<>>)

\* the names under which a Validator is registered
Validators == {"expr", "check"}

\* Validator.Field(tag, i): the expression of the tag evaluated on the value;
\* "true" and "false" are constant, "set" holds of a value that is not the
\* zero value of its type, anything else does not evaluate to a boolean
Field(content, value) ==
    CASE content = "true" -> TRUE
      [] content = "false" -> FALSE
      [] content = "set" -> value # Zero([kind |-> value.kind])
      [] OTHER -> FALSE

\* Validate(tag, i): nil (TRUE) unless a registered validator whose name the
\* tag holds returns an error
Validate(tag, value) ==
    \A name \in Validators :
        name \in DOMAIN tag => Field(tag[name], value)

\* ------------------------------------------------------------------------
\* BindValue, bindSlice, getSlice
\* ------------------------------------------------------------------------

\* strconv.Itoa for the %d of fmt.Sprintf
RECURSIVE Itoa(_)
Itoa(n) ==
    IF n < 10 THEN <<DigitChars[n + 1]>>
    ELSE Itoa(n \div 10) \o <<DigitChars[(n % 10) + 1]>>

\* fmt.Sprintf("%s[%d]", key, i)
IndexKey(key, i) == key \o <<"[">> \o Itoa(i) \o <<"]">>

\* strings.Split(s, ",")
RECURSIVE Split(_, _)
Split(s, sep) ==
    LET i == Index(s, sep)
    IN  IF i < 0 THEN <<s>>
        ELSE <<Slice(s, 0, i)>> \o Split(Slice(s, i + Len(sep), Len(s)), sep)

\* the result of a bind call: the error (with the path its message names)
\* and the value the target holds when the call returns
Bound(value) == [err |-> "nil", path |-> <<>>, v |-> value]

Failed(kind, path, target) == [err |-> kind, path |-> path, v |-> target]

\* getSlice: the Properties holding the elements, isNil for a nil *Properties
getSlice(p, et, param) ==
    IF Has(p, IndexKey(param.Key, 0))
    THEN [err |-> "nil", isNil |-> FALSE, p |-> p]
    ELSE IF ~Has(p, param.Key) /\ ~param.Tag.HasDef
    THEN [err |-> "NotExist", isNil |-> TRUE, p |-> <<>>]
    ELSE IF ~Has(p, param.Key) /\ param.Tag.Def = <<>>
    THEN [err |-> "nil", isNil |-> TRUE, p |-> <<>>]
    ELSE IF ~Has(p, param.Key) /\ ~IsPrimitiveValueType(et) /\ ~HasConverter(et)
    THEN [err |-> "Unsupported", isNil |-> TRUE, p |-> <<>>]
    ELSE LET strVal == IF Has(p, param.Key) THEN Get(p, param.Key) ELSE param.Tag.Def
         IN  IF strVal = <<>> THEN [err |-> "nil", isNil |-> TRUE, p |-> <<>>]
             ELSE IF param.Tag.Splitter # <<>>
             THEN [err |-> "Splitter", isNil |-> TRUE, p |-> <<>>]
             ELSE LET arrVal == Split(strVal, <<",">>)
                      keys == {IndexKey(param.Key, i - 1) : i \in 1..Len(arrVal)}
                  IN  [err |-> "nil", isNil |-> FALSE,
                       p |-> [k \in keys |->
                                TrimSpace(arrVal[CHOOSE i \in 1..Len(arrVal) :
                                                    IndexKey(param.Key, i - 1) = k])]]

RECURSIVE BindValue(_, _, _, _)
RECURSIVE BindElems(_, _, _, _, _)

\* the body of the loop of bindSlice after "err = BindValue(p, e, et,
\* subParam, filter)", e being the outcome of that call
ElemBound(p, et, param, i, slice, e) ==
    IF e.err = "NotExist" THEN [err |-> "nil", v |-> slice]
    ELSE IF e.err # "nil" THEN [err |-> e.err, v |-> slice]
    ELSE BindElems(p, et, param, i + 1, Append(slice, e.v))

\* the loop "for i := 0; ; i++" of bindSlice, from index i on
BindElems(p, et, param, i, slice) ==
    ElemBound(p, et, param, i, slice,
              BindValue(p, Zero(et), et,
                        [NoParam EXCEPT !.Key = IndexKey(param.Key, i),
                                        !.Path = IndexKey(param.Path, i)]))

\* bindSlice after the loop: the slice is validated, then set
SliceBound(target, param, elems) ==
    IF elems.err # "nil" THEN Failed(elems.err, param.Path, target)
    ELSE IF ~Validate(param.Validate, Value("slice", elems.v))
    THEN Failed("Validation", param.Path, target)
    ELSE Bound(Value("slice", elems.v))

\* bindSlice after "p, err := getSlice(p, et, param)"
BindSliceOf(target, t, param, sl) ==
    IF sl.err # "nil" THEN Failed(sl.err, param.Path, target)
    ELSE IF sl.isNil THEN Bound(Value("slice", <<>>))
    ELSE SliceBound(target, param, BindElems(sl.p, t.elem, param, 0, <<>>))

bindSlice(p, target, t, param) ==
    BindSliceOf(target, t, param, getSlice(p, t.elem, param))

\* "if fn != nil": the registered converter is called on the resolved string
BindConverted(t, val, param, target) ==
    LET out == Converter(t, val)
    IN  IF ~out.ok THEN Failed("Conversion", param.Path, target)
        ELSE IF ~Validate(param.Validate, Value(t.kind, out.v))
        THEN Failed("Validation", param.Path, target)
        ELSE Bound(Value(t.kind, out.v))

\* case reflect.Uint, ...
BindUint(t, val, param, target) ==
    LET u == ParseUint(val)
    IN  IF u.ok
        THEN IF ~Validate(param.Validate, Value(t.kind, u.v))
             THEN Failed("Validation", param.Path, target)
             ELSE Bound(Value(t.kind, u.v))
        ELSE Failed("Conversion", param.Path, target)

\* case reflect.Int, ...
BindInt(t, val, param, target) ==
    LET i == ParseInt(val)
    IN  IF i.ok
        THEN IF ~Validate(param.Validate, Value(t.kind, i.v))
             THEN Failed("Validation", param.Path, target)
             ELSE Bound(Value(t.kind, i.v))
        ELSE Failed("Conversion", param.Path, target)

\* case reflect.Float32, reflect.Float64
BindFloat(t, val, param, target) ==
    LET f == ParseFloat(val)
    IN  IF f.ok
        THEN IF ~Validate(param.Validate, Value(t.kind, f.v))
             THEN Failed("Validation", param.Path, target)
             ELSE Bound(Value(t.kind, f.v))
        ELSE Failed("Conversion", param.Path, target)

\* mutant: the boolean is stored before the validators have run
BindBoolSetFirst(t, val, param, target) ==
    LET b == ParseBool(val)
    IN  IF b.ok
        THEN IF ~Validate(param.Validate, Value(t.kind, b.v))
             THEN Failed("Validation", param.Path, Value(t.kind, b.v))
             ELSE Bound(Value(t.kind, b.v))
        ELSE Failed("Conversion", param.Path, target)

\* case reflect.Bool
BindBool(t, val, param, target) ==
    LET b == ParseBool(val)
    IN  IF b.ok
        THEN IF ~Validate(param.Validate, Value(t.kind, b.v))
             THEN Failed("Validation", param.Path, target)
             ELSE Bound(Value(t.kind, b.v))
        ELSE Failed("Conversion", param.Path, target)

\* case reflect.String
BindString(t, val, param, target) ==
    IF ~Validate(param.Validate, Value(t.kind, val))
    THEN Failed("Validation", param.Path, target)
    ELSE Bound(Value(t.kind, val))

\* BindValue after "val, err := resolve(p, param)"
BindResolved(target, t, param, val) ==
    IF val.err # "nil" THEN Failed(val.err, param.Path, target)
    ELSE IF HasConverter(t) THEN BindConverted(t, val.val, param, target)
    ELSE CASE t.kind \in UintKinds -> BindUint(t, val.val, param, target)
           [] t.kind \in IntKinds -> BindInt(t, val.val, param, target)
           [] t.kind \in FloatKinds -> BindFloat(t, val.val, param, target)
           [] t.kind = "bool" -> BindBool(t, val.val, param, target)
           [] t.kind = "string" -> BindString(t, val.val, param, target)
           [] OTHER -> Failed("Unsupported", param.Path, target)

\* BindValue for slices and for the types bound from one string (maps and
\* structs are bound field by field through the same calls); target is the
\* value v holds before the call
BindValue(p, target, t, param) ==
    IF ~IsValueType(t) THEN Failed("NotValueType", param.Path, target)
    ELSE IF t.kind = "slice" THEN bindSlice(p, target, t, param)
    ELSE IF t.kind = "array" THEN Failed("UseSlice", param.Path, target)
    ELSE BindResolved(target, t, param, resolve(p, param))

\* ------------------------------------------------------------------------
\* Inputs of the binder model
\* ------------------------------------------------------------------------

KeyA == <<"a">>
KeyB == <<"b">>
KeyC == <<"c">>

\* "${b}", "${c}", "${a:=d}", "${c:=${b}}"
RefB == <<"$", "{", "b", "}">>
RefC == <<"$", "{", "c", "}">>
RefADef == <<"$", "{", "a", ":", "=", "d", "}">>
RefCDefB == <<"$", "{", "c", ":", "=", "$", "{", "b", "}", "}">>

\* an optional value: <<>> for none, <<v>> for the value v
Some(v) == <<v>>

\* the Properties holding the given optional values of a, b and ANONYMOUS
StoreOf(oa, ob, on) ==
    LET dom == (IF oa # <<>> THEN {KeyA} ELSE {})
                   \cup (IF ob # <<>> THEN {KeyB} ELSE {})
                   \cup (IF on # <<>> THEN {ANONYMOUS} ELSE {})
    IN  [k \in dom |-> IF k = KeyA THEN oa[1]
                       ELSE IF k = KeyB THEN ob[1]
                       ELSE on[1]]

\* the stores: a may refer to b, b refers to nothing, c is never defined
Stores ==
    {StoreOf(oa, ob, on) :
        oa \in {<<>>, Some(<<>>), Some(<<"1">>), Some(RefB)},
        ob \in {<<>>, Some(<<>>), Some(<<"2">>)},
        on \in {<<>>, Some(<<"3">>)}}

\* ------------------------------------------------------------------------
\* resolveString on a placeholder with a default: pre ${key:=def} post
\* ------------------------------------------------------------------------

\* text without "${" that stands before the placeholder
Pres == {<<>>, <<"x">>, <<"}">>, <<"$">>}

DefaultKeys == {KeyA, KeyB, KeyC, <<>>, ROOT}

\* balanced default values
Defs == {<<>>, <<"d">>, RefB, RefC, RefADef, RefCDefB, <<"d">> \o RefB \o <<"d">>}

\* the text after the placeholder
Posts == {<<>>, <<"z">>, RefB, RefC, DollarBrace, <<"}", "z">>}

DefaultArgs == [pre : Pres, key : DefaultKeys, def : Defs, post : Posts]

\* the string pre ${key:=def} post
WithDefault(a) ==
    a.pre \o DollarBrace \o a.key \o ColonEq \o a.def \o CloseBrace \o a.post

InitDefault ==
    /\ props \in Stores
    /\ arg \in DefaultArgs
    /\ ret = NotCalled
    /\ cond = NewConditional
    /\ configers = <<>>
    /\ phase = "idle"
    /\ toSort = <<>>
    /\ sorted = <<>>
    /\ processing = <<>>
    /\ stack = <<>>
    /\ cycle = <<>>

\* the call resolveString(p, s)
ResolveDefault ==
    /\ ret = NotCalled
    /\ ret' = resolveString(props, WithDefault(arg))
    /\ UNCHANGED <<props, arg, cond>>
    /\ UNCHANGED sortVars

NextDefault == ResolveDefault

SpecDefault == InitDefault /\ [][NextDefault]_vars

\* C7: for a placeholder ${k:=d} with a key k (non-empty) that the store does
\* not hold, resolveString returns the text before the placeholder, then d
\* with its own placeholders resolved against the store, then the resolved
\* text after the placeholder; it fails exactly when resolving d or the text
\* after fails, with that error
DefaultIsResolved ==
    (ret # NotCalled /\ arg.key # <<>> /\ ~Has(props, arg.key)) =>
        LET d == resolveString(props, arg.def)
            rest == resolveString(props, arg.post)
        IN  IF d.err # "nil" THEN ret = Err(d.err)
            ELSE IF rest.err # "nil" THEN ret = Err(rest.err)
            ELSE ret = Ok(arg.pre \o d.val \o rest.val)

\* x${a:=${b}}${b} with a absent and b = 2 resolved to x22
DefaultIsResolvedWitness ==
    /\ ret # NotCalled
    /\ ~Has(props, arg.key)
    /\ arg.key = KeyA
    /\ arg.pre = <<"x">>
    /\ arg.def = RefB
    /\ arg.post = RefB
    /\ Get(props, KeyB) = <<"2">>
    /\ ret = Ok(<<"x", "2", "2">>)

\* ------------------------------------------------------------------------
\* ParseTag(tag.String()) on constructed ParsedTags
\* ------------------------------------------------------------------------

\* longest Key, Def and Splitter of a constructed ParsedTag
MaxFieldLen == 2

StringsOver(chars, n) == UNION {[1..k -> chars] : k \in 0..n}

KeyChars == {"a", ":", "=", "}"}
DefChars == {"d", ":", "=", "}"}
SplitterChars == {"s", " ", "}", "|"}

ParsedTags ==
    [Key : StringsOver(KeyChars, MaxFieldLen),
     Def : StringsOver(DefChars, MaxFieldLen),
     HasDef : BOOLEAN,
     Splitter : StringsOver(SplitterChars, MaxFieldLen)]

InitTag ==
    /\ props = <<>>
    /\ arg \in ParsedTags
    /\ ret = NotCalled
    /\ cond = NewConditional
    /\ configers = <<>>
    /\ phase = "idle"
    /\ toSort = <<>>
    /\ sorted = <<>>
    /\ processing = <<>>
    /\ stack = <<>>
    /\ cycle = <<>>

\* the call ParseTag(tag.String())
RoundTrip ==
    /\ ret = NotCalled
    /\ ret' = ParseTag(String(arg))
    /\ UNCHANGED <<props, arg, cond>>
    /\ UNCHANGED sortVars

NextTag == RoundTrip

SpecTag == InitTag /\ [][NextTag]_vars

Contains(s, sub) == \E i \in 0..Len(s) : HasAt(s, sub, i)

\* the ParsedTags that String writes in a form ParseTag reads back
Canonical(tag) ==
    /\ tag.HasDef \/ tag.Def = <<>>
    /\ ~Contains(tag.Key, ColonEq)
    /\ ~Contains(tag.Splitter, CloseBrace)
    /\ ~Contains(tag.Splitter, DoubleBar)
    /\ tag.Splitter # <<>> =>
        /\ tag.Splitter[1] \notin {" ", "|"}
        /\ tag.Splitter[Len(tag.Splitter)] # " "

StoreFrom(pairs) ==
    [k \in {pr[1] : pr \in {q \in pairs : q[2] # <<>>}} |->
        (CHOOSE pr \in pairs : pr[1] = k)[2][1]]

\* "${a}", "${a:=}", "${a:=1,2}", "${a:=1}"
TagA == <<"$", "{", "a", "}">>
TagADefEmpty == <<"$", "{", "a", ":", "=", "}">>
TagADefList == <<"$", "{", "a", ":", "=", "1", ",", "2", "}">>
TagADefOne == <<"$", "{", "a", ":", "=", "1", "}">>

\* the values of the indexed keys a[0], a[1], a[2]
ElemValues == {<<"x">>, <<"1">>, <<>>, RefB, RefC}

ElemOptions == {<<>>} \cup {Some(v) : v \in ElemValues}

\* a store holds a as a list (indexed keys) or as one string, never as both
SliceStores ==
    {StoreFrom({<<IndexKey(KeyA, 0), o0>>, <<IndexKey(KeyA, 1), o1>>,
                <<IndexKey(KeyA, 2), o2>>, <<KeyB, ob>>, <<KeyA, <<>>>>}) :
        o0 \in ElemOptions, o1 \in ElemOptions, o2 \in ElemOptions,
        ob \in {<<>>, Some(<<"2">>)}}
    \cup
    {StoreFrom({<<KeyA, oa>>, <<KeyB, ob>>}) :
        oa \in {Some(<<>>), Some(<<"1", ",", " ", "2">>)},
        ob \in {<<>>, Some(<<"2">>)}}

SliceArgs ==
    [elem : {"string", "int"},
     tag : {TagA, TagADefEmpty, TagADefList},
     validate : {<<>>, [n \in {"expr"} |-> "set"], [n \in {"expr"} |-> "false"]}]

\* the path of the bound field
FieldPath == <<"S", ".", "F">>

\* the BindParam bindStruct passes for a field with a value tag
FieldParam(a) ==
    BindTag([NoParam EXCEPT !.Path = FieldPath], a.tag, a.validate).param

\* the slice the field holds before the call
OldSlice == Value("slice", <<Value("string", <<"o">>)>>)

InitSlice ==
    /\ props \in SliceStores
    /\ arg \in SliceArgs
    /\ ret = NotCalled
    /\ cond = NewConditional
    /\ configers = <<>>
    /\ phase = "idle"
    /\ toSort = <<>>
    /\ sorted = <<>>
    /\ processing = <<>>
    /\ stack = <<>>
    /\ cycle = <<>>

\* the call BindValue(p, v, t, param, nil) for a slice type t
BindSliceField ==
    /\ ret = NotCalled
    /\ ret' = BindValue(props, OldSlice,
                        [kind |-> "slice", elem |-> [kind |-> arg.elem]],
                        FieldParam(arg))
    /\ UNCHANGED <<props, arg, cond>>
    /\ UNCHANGED sortVars

NextSlice == BindSliceField

SpecSlice == InitSlice /\ [][NextSlice]_vars

\* the length of the run of indexed keys key[i], key[i+1], ... in the store
RECURSIVE RunLength(_, _, _)
RunLength(p, key, i) ==
    IF Has(p, IndexKey(key, i)) THEN RunLength(p, key, i + 1) ELSE i

\* C9: when the store holds a[0], a bind of a as a sequence that returns
\* without error has bound exactly one element per index of the run a[0],
\* a[1], ... that ends at the first absent index; the keys after a gap and
\* the default of the tag add nothing
IndexedRunIsBound ==
    (ret # NotCalled /\ Has(props, IndexKey(KeyA, 0)) /\ ret.err = "nil") =>
        Len(ret.v.v) = RunLength(props, KeyA, 0)

\* C15: bindSlice ends the sequence silently only at an index whose key is
\* absent: when the bind returns without error, the key of the index after
\* the last bound element is not in the Properties the loop reads, so no
\* failure of an element whose key is present shortens the result
NotExistOnlySentinel ==
    ret # NotCalled =>
        LET param == FieldParam(arg)
            sl == getSlice(props, [kind |-> arg.elem], param)
        IN  (ret.err = "nil" /\ sl.err = "nil" /\ ~sl.isNil) =>
                ~Has(sl.p, IndexKey(param.Key, Len(ret.v.v)))

\* ------------------------------------------------------------------------
\* BindValue on a field of a type bound from one string
\* ------------------------------------------------------------------------

\* the values of the key a
LeafValues ==
    {<<>>, <<"0">>, <<"1">>, <<"-", "1">>, <<"0", "1", "0">>,
     <<"1", ".", "5">>, <<"t">>, <<"x">>, RefB}

LeafStores ==
    {StoreFrom({<<KeyA, oa>>, <<KeyB, Some(<<"2">>)>>}) :
        oa \in {<<>>} \cup {Some(v) : v \in LeafValues}}

\* the field tags: an expression for each registered validator, or none, and
\* possibly a tag no validator is registered for
StructTags ==
    UNION {[names -> {"true", "false", "set", "bad"}] : names \in SUBSET Validators}
    \cup
    UNION {[names \cup {"note"} -> {"false"}] : names \in SUBSET Validators}

\* the kinds of the bound field; the last two are not bound from a string
FieldKinds == LeafKinds \cup {"array", "complex", "func"}

\* the values the field may hold before the call
OldValues(t) ==
    CASE t.kind = "string" -> {Value(t.kind, <<"o">>)}
      [] t.kind \in UintKinds \cup IntKinds -> {Value(t.kind, 7)}
      [] t.kind \in FloatKinds -> {Value(t.kind, <<7, 0>>)}
      [] t.kind = "bool" -> {Value(t.kind, TRUE), Value(t.kind, FALSE)}
      [] t.kind = "level" -> {Value(t.kind, <<"level", 9>>)}
      [] OTHER -> {Value(t.kind, <<>>)}

InitLeaf ==
    /\ props \in LeafStores
    /\ \E k \in FieldKinds, tag \in {TagA, TagADefEmpty, TagADefOne},
          validate \in StructTags :
            \E old \in OldValues([kind |-> k]) :
                arg = [t |-> [kind |-> k], tag |-> tag,
                       validate |-> validate, old |-> old]
    /\ ret = NotCalled
    /\ cond = NewConditional
    /\ configers = <<>>
    /\ phase = "idle"
    /\ toSort = <<>>
    /\ sorted = <<>>
    /\ processing = <<>>
    /\ stack = <<>>
    /\ cycle = <<>>

\* the call BindValue(p, v, t, param, nil) for the type of the field
BindField ==
    /\ ret = NotCalled
    /\ ret' = BindValue(props, arg.old, arg.t, FieldParam(arg))
    /\ UNCHANGED <<props, arg, cond>>
    /\ UNCHANGED sortVars

NextLeaf == BindField

SpecLeaf == InitLeaf /\ [][NextLeaf]_vars

\* what the string s converts to for the type t
ConvertedOf(t, s) ==
    CASE t.kind = "level" -> Converter(t, s)
      [] t.kind \in UintKinds -> ParseUint(s)
      [] t.kind \in IntKinds -> ParseInt(s)
      [] t.kind \in FloatKinds -> ParseFloat(s)
      [] t.kind = "bool" -> ParseBool(s)
      [] t.kind = "string" -> Parsed(s)

\* a registered validator whose tag is present rejects the value
Rejected(tag, value) ==
    \E name \in Validators \cap DOMAIN tag : ~Field(tag[name], value)

\* C10: for every field bound from one string (built-in primitive or type with
\* a converter), a validator that rejects the converted value makes BindValue
\* return a validation error naming the path of the field and leaves the
\* field as it was; the field is assigned, with the converted value, exactly
\* when the conversion and every validator whose tag is present succeed
LeafValidatedBeforeSet ==
    (ret # NotCalled /\ arg.t.kind \in LeafKinds) =>
        LET val == resolve(props, FieldParam(arg))
            out == IF val.err = "nil" THEN ConvertedOf(arg.t, val.val) ELSE NotParsed
            value == Value(arg.t.kind, out.v)
            rejected == out.ok /\ Rejected(arg.validate, value)
        IN  /\ rejected =>
                /\ ret.err = "Validation"
                /\ ret.path = FieldPath
                /\ ret.v = arg.old
            /\ ret.err = "Validation" => rejected
            /\ (ret.err = "nil") <=> (out.ok /\ ~rejected)
            /\ ret.err = "nil" => ret.v = value
            /\ ret.err # "nil" => ret.v = arg.old

\* a = "1" bound to a bool field holding false, with the tag expr:"false":
\* the validator rejects true and the field still holds false
LeafValidatedBeforeSetWitness ==
    /\ ret # NotCalled
    /\ arg.t.kind = "bool"
    /\ arg.old = Value("bool", FALSE)
    /\ Get(props, KeyA) = <<"1">>
    /\ "expr" \in DOMAIN arg.validate
    /\ arg.validate["expr"] = "false"
    /\ ret.err = "Validation"
    /\ ret.v = arg.old

\* ------------------------------------------------------------------------
\* resolve on the param of a field tagged value:"${key...}"
\* ------------------------------------------------------------------------

\* "${a:=${b}}"
TagADefRefB == <<"$", "{", "a", ":", "=", "$", "{", "b", "}", "}">>

ResolveTags ==
    {TagA, TagADefEmpty, TagADefOne, TagADefRefB, RefB, RefC, RefADef, RefCDefB}

InitResolve ==
    /\ props \in Stores
    /\ arg \in [tag : ResolveTags, validate : {<<>>}]
    /\ ret = NotCalled
    /\ cond = NewConditional
    /\ configers = <<>>
    /\ phase = "idle"
    /\ toSort = <<>>
    /\ sorted = <<>>
    /\ processing = <<>>
    /\ stack = <<>>
    /\ cycle = <<>>

\* the call resolve(p, param)
Resolve ==
    /\ ret = NotCalled
    /\ ret' = resolve(props, FieldParam(arg))
    /\ UNCHANGED <<props, arg, cond>>
    /\ UNCHANGED sortVars

NextResolve == Resolve

SpecResolve == InitResolve /\ [][NextResolve]_vars

\* C13: resolve takes the direct store value, else the tag default, else
\* fails: a key the store holds resolves to its expanded store value, also
\* when that value is empty and the tag has a default; the default is used
\* only for a key the store does not hold; and NotExist for the key itself is
\* returned only when the key is absent and the tag has no default
StoreValueFirst ==
    ret # NotCalled =>
        LET param == FieldParam(arg)
        IN  /\ Has(props, param.Key) =>
                ret = resolveString(props, Get(props, param.Key))
            /\ (~Has(props, param.Key) /\ param.Tag.HasDef) =>
                ret = resolveString(props, param.Tag.Def)
            /\ (~Has(props, param.Key) /\ ~param.Tag.HasDef) =>
                ret.err = "NotExist"

\* ------------------------------------------------------------------------
\* resolveString on a string with a "${" that no "}" closes: pre open post
\* ------------------------------------------------------------------------

\* balanced text that stands before the unclosed "${"
BalancedPres == {<<>>, <<"x">>, <<"}">>, RefB, RefC, RefADef, RefCDefB}

\* "${", "${b", "${b:=", "${${b}", "${b:=${a}": the first "${" is not closed
Opens ==
    {DollarBrace,
     DollarBrace \o KeyB,
     DollarBrace \o KeyB \o ColonEq,
     DollarBrace \o RefB,
     DollarBrace \o KeyB \o ColonEq \o TagA}

\* text without "}" after it
OpenPosts == {<<>>, <<"z">>, <<"$">>}

UnbalancedArgs == [pre : BalancedPres, open : Opens, post : OpenPosts]

Unbalanced(a) == a.pre \o a.open \o a.post

InitUnbalanced ==
    /\ props \in Stores
    /\ arg \in UnbalancedArgs
    /\ ret = NotCalled
    /\ cond = NewConditional
    /\ configers = <<>>
    /\ phase = "idle"
    /\ toSort = <<>>
    /\ sorted = <<>>
    /\ processing = <<>>
    /\ stack = <<>>
    /\ cycle = <<>>

\* the call resolveString(p, s)
ResolveUnbalanced ==
    /\ ret = NotCalled
    /\ ret' = resolveString(props, Unbalanced(arg))
    /\ UNCHANGED <<props, arg, cond>>
    /\ UNCHANGED sortVars

NextUnbalanced == ResolveUnbalanced

SpecUnbalanced == InitUnbalanced /\ [][NextUnbalanced]_vars

\* C14 as stated: for every string with a "${" that no "}" closes, wherever
\* it stands, and every store, resolveString returns an InvalidSyntax error
UnbalancedIsInvalidSyntax ==
    ret # NotCalled => ret.err = "InvalidSyntax"

\* C14 amended: for every string with a "${" that no "}" closes and every
\* store, resolveString returns an error and no resolved string; the error is
\* InvalidSyntax unless a balanced placeholder that stands before the unclosed
\* "${" fails to resolve, and then it is the error of that placeholder
UnbalancedIsError ==
    ret # NotCalled =>
        /\ ret.err # "nil"
        /\ ret.val = <<>>
        /\ ret.err = IF resolveString(props, arg.pre).err # "nil"
                     THEN resolveString(props, arg.pre).err
                     ELSE "InvalidSyntax"

\* "${b}" resolved from the store, then the unclosed "${b:=${a}"
UnbalancedIsErrorWitness ==
    /\ ret # NotCalled
    /\ arg.pre = RefB
    /\ arg.open = DollarBrace \o KeyB \o ColonEq \o TagA
    /\ Has(props, KeyB)
    /\ Get(props, KeyB) = <<"2">>
    /\ ret.err = "InvalidSyntax"

\* ------------------------------------------------------------------------
\* ParseTag and BindTag on arbitrary strings
\* ------------------------------------------------------------------------

\* the length of the tags written character by character
MaxTagLen == 4

TagChars == {"$", "{", "}", "|", ":", "=", "a"}

\* "${ROOT}", "${ROOT:=d}", "${ROOT.a}", "${:=d}", "${a:=d}||s"
LongTags ==
    {DollarBrace \o ROOT \o CloseBrace,
     DollarBrace \o ROOT \o ColonEq \o <<"d">> \o CloseBrace,
     DollarBrace \o ROOT \o <<".", "a">> \o CloseBrace,
     DollarBrace \o ColonEq \o <<"d">> \o CloseBrace,
     RefADef \o DoubleBar \o <<"s">>}

\* the tag, and the Key of the param BindTag is called on
TagArgs == [tag : StringsOver(TagChars, MaxTagLen) \cup LongTags, key : {<<>>, KeyB}]

InitParse ==
    /\ props = <<>>
    /\ arg \in TagArgs
    /\ ret = NotCalled
    /\ cond = NewConditional
    /\ configers = <<>>
    /\ phase = "idle"
    /\ toSort = <<>>
    /\ sorted = <<>>
    /\ processing = <<>>
    /\ stack = <<>>
    /\ cycle = <<>>

\* the call ParseTag(tag)
ParseTagCall ==
    /\ ret = NotCalled
    /\ ret' = ParseTag(arg.tag)
    /\ UNCHANGED <<props, arg, cond>>
    /\ UNCHANGED sortVars

\* the call param.BindTag(tag, "")
BindTagCall ==
    /\ ret = NotCalled
    /\ ret' = BindTag([NoParam EXCEPT !.Key = arg.key], arg.tag, <<>>)
    /\ UNCHANGED <<props, arg, cond>>
    /\ UNCHANGED sortVars

NextParse == ParseTagCall \/ BindTagCall

SpecParse == InitParse /\ [][NextParse]_vars

\* BindTag was called and returned nil
BindTagDone == "param" \in DOMAIN ret /\ ret.err = "nil"

\* C16 as stated: after every successful BindTag the Key of param.Tag is not
\* empty, whatever the tag
TagKeyNonEmpty ==
    BindTagDone => ret.param.Tag.Key # <<>>

\* C16 amended: after a successful BindTag the Key of param.Tag is empty
\* exactly when the key written in the tag is ROOT; an empty written key
\* becomes ANONYMOUS and every other key is kept
TagKeyEmptyOnlyForRoot ==
    BindTagDone =>
        LET key == ParseTag(arg.tag).ret.Key
        IN  /\ (ret.param.Tag.Key = <<>>) <=> (key = ROOT)
            /\ key = <<>> => ret.param.Tag.Key = ANONYMOUS
            /\ key \notin {<<>>, ROOT} => ret.param.Tag.Key = key

\* BindTag on "${:=d}": the empty key has become ANONYMOUS
TagKeyEmptyOnlyForRootWitness ==
    /\ BindTagDone
    /\ arg.tag = DollarBrace \o ColonEq \o <<"d">> \o CloseBrace
    /\ ret.param.Tag.Key = ANONYMOUS

\* C17: ParseTag is total: on every string it returns a ParsedTag without
\* error or an InvalidSyntax error, and never aborts on a slice out of range
ParseTagIsTotal ==
    "ret" \in DOMAIN ret => ret.err \in {"nil", "InvalidSyntax"}

\* ------------------------------------------------------------------------
\* The Conditional of a Configer: Or, And, ConditionOnProperty,
\* ConditionOnMissingProperty, Matches
\* ------------------------------------------------------------------------

\* the number of builder calls made on one Configer
MaxCalls == 5

KeyX == <<"x">>
KeyY == <<"y">>

\* the stores a condition is evaluated against: x and y absent, empty or set
CondStores ==
    {StoreFrom({<<KeyX, ox>>, <<KeyY, oy>>}) :
        ox \in {<<>>, Some(<<>>), Some(<<"1">>)},
        oy \in {<<>>, Some(<<>>), Some(<<"1">>)}}

\* Conditional.Or / Conditional.And: the operator of the next append
SelectOp(c, op, call) ==
    [c EXCEPT !.op = op, !.calls = Append(@, [call |-> call, name |-> <<>>])]

\* Conditional.OnProperty / OnMissingProperty: the predicate is appended with
\* the operator selected since the last append, AND when none was
OnCondition(c, kind, name, call) ==
    [c EXCEPT !.nodes = Append(@, [op |-> c.op, kind |-> kind, name |-> name]),
              !.op = "and",
              !.calls = Append(@, [call |-> call, name |-> name])]

\* the predicate of a node evaluated against the store
Holds(node, p) ==
    IF node.kind = "property" THEN Has(p, node.name) ELSE ~Has(p, node.name)

Combine(op, a, b) == IF op = "or" THEN a \/ b ELSE a /\ b

\* mutant: the nodes are combined from the right, a op (b op c)
RECURSIVE RightFrom(_, _, _)
RightFrom(nodes, i, p) ==
    IF i = Len(nodes) THEN Holds(nodes[i], p)
    ELSE Combine(nodes[i + 1].op, Holds(nodes[i], p), RightFrom(nodes, i + 1, p))

ConditionalMatchesRight(c, p) ==
    IF c.nodes = <<>> THEN TRUE ELSE RightFrom(c.nodes, 1, p)

\* the accumulated result joined with the nodes from i on, one at a time
RECURSIVE FoldFrom(_, _, _, _)
FoldFrom(nodes, i, acc, p) ==
    IF i > Len(nodes) THEN acc
    ELSE FoldFrom(nodes, i + 1, Combine(nodes[i].op, acc, Holds(nodes[i], p)), p)

\* Conditional.Matches: true without predicates
ConditionalMatches(c, p) ==
    IF c.nodes = <<>> THEN TRUE ELSE FoldFrom(c.nodes, 2, Holds(c.nodes[1], p), p)

InitCond ==
    /\ props \in CondStores
    /\ arg = <<>>
    /\ ret = NotCalled
    /\ cond = NewConditional
    /\ configers = <<>>
    /\ phase = "idle"
    /\ toSort = <<>>
    /\ sorted = <<>>
    /\ processing = <<>>
    /\ stack = <<>>
    /\ cycle = <<>>

Or ==
    /\ ret = NotCalled
    /\ Len(cond.calls) < MaxCalls
    /\ cond' = SelectOp(cond, "or", "Or")
    /\ UNCHANGED <<props, arg, ret>>
    /\ UNCHANGED sortVars

And ==
    /\ ret = NotCalled
    /\ Len(cond.calls) < MaxCalls
    /\ cond' = SelectOp(cond, "and", "And")
    /\ UNCHANGED <<props, arg, ret>>
    /\ UNCHANGED sortVars

ConditionOnProperty(name) ==
    /\ ret = NotCalled
    /\ Len(cond.calls) < MaxCalls
    /\ cond' = OnCondition(cond, "property", name, "ConditionOnProperty")
    /\ UNCHANGED <<props, arg, ret>>
    /\ UNCHANGED sortVars

ConditionOnMissingProperty(name) ==
    /\ ret = NotCalled
    /\ Len(cond.calls) < MaxCalls
    /\ cond' = OnCondition(cond, "missing", name, "ConditionOnMissingProperty")
    /\ UNCHANGED <<props, arg, ret>>
    /\ UNCHANGED sortVars

\* Configer.Matches(ctx)
ConfigerMatches ==
    /\ ret = NotCalled
    /\ ret' = [matches |-> ConditionalMatches(cond, props)]
    /\ UNCHANGED <<props, arg, cond>>
    /\ UNCHANGED sortVars

NextCond ==
    \/ Or
    \/ And
    \/ \E name \in {KeyX, KeyY} : ConditionOnProperty(name)
    \/ \E name \in {KeyX, KeyY} : ConditionOnMissingProperty(name)
    \/ ConfigerMatches

SpecCond == InitCond /\ [][NextCond]_vars

\* ConditionOnProperty("x").And().ConditionOnMissingProperty("y")
ExampleCalls ==
    <<[call |-> "ConditionOnProperty", name |-> KeyX],
      [call |-> "And", name |-> <<>>],
      [call |-> "ConditionOnMissingProperty", name |-> KeyY]>>

\* the left fold of the predicates among the calls from i on: op is the
\* operator selected since the last predicate, acc the result so far, first
\* holds while no predicate has been met
RECURSIVE LeftFold(_, _, _, _, _, _)
LeftFold(calls, i, op, acc, first, p) ==
    IF i > Len(calls) THEN acc
    ELSE IF calls[i].call = "Or" THEN LeftFold(calls, i + 1, "or", acc, first, p)
    ELSE IF calls[i].call = "And" THEN LeftFold(calls, i + 1, "and", acc, first, p)
    ELSE LET v == IF calls[i].call = "ConditionOnProperty"
                  THEN calls[i].name \in DOMAIN p
                  ELSE calls[i].name \notin DOMAIN p
         IN  LeftFold(calls, i + 1, "and",
                      IF first THEN v ELSE IF op = "or" THEN acc \/ v ELSE acc /\ v,
                      FALSE, p)

\* C11: Matches returns the left fold of the predicates in the order of the
\* builder calls, each joined by the operator selected since the previous
\* predicate (AND when none was); so a Configer built with
\* ConditionOnProperty("x").And().ConditionOnMissingProperty("y") matches
\* exactly when x is in the store and y is not
ConditionIsLeftFold ==
    ret # NotCalled =>
        /\ ret.matches = LeftFold(cond.calls, 1, "and", TRUE, TRUE, props)
        /\ cond.calls = ExampleCalls =>
               (ret.matches <=> (KeyX \in DOMAIN props /\ KeyY \notin DOMAIN props))

\* the example built and evaluated on a store with x and without y
ConditionIsLeftFoldWitness ==
    /\ ret # NotCalled
    /\ cond.calls = ExampleCalls
    /\ KeyX \in DOMAIN props
    /\ KeyY \notin DOMAIN props
    /\ ret.matches

\* ------------------------------------------------------------------------
\* Properties of the sorter
\* ------------------------------------------------------------------------

Pos(l, c) == FirstIndex(l, c, 1)

\* a precedence pair: a names b in its before list, or b names a in its after list
MustPrecede(a, b) ==
    \/ InList(configers[a].before, configers[b].name)
    \/ InList(configers[b].after, configers[a].name)

DirectPreds(S) == {a \in Units : \E b \in S : MustPrecede(a, b)}

RECURSIVE PredsClosure(_, _)
PredsClosure(S, n) ==
    IF n = 0 THEN S ELSE PredsClosure(S \cup DirectPreds(S), n - 1)

\* the units that must precede u through a chain of one or more constraints
TransPreds(u) == PredsClosure(DirectPreds({u}), NumUnits)

HasCycle == \E u \in Units : u \in TransPreds(u)

Linked(u, v) == u \in TransPreds(v) \/ v \in TransPreds(u)

InputOrder == [i \in Units |-> i]

\* C1: whenever sortConfigers returns, every unit that names another in its
\* before list, or is named in the other's after list, stands earlier in the
\* returned list than the other
SortRespectsPrecedence ==
    phase = "returned" =>
        \A a, b \in Units :
            MustPrecede(a, b) =>
                /\ InList(sorted, a)
                /\ InList(sorted, b)
                /\ Pos(sorted, a) < Pos(sorted, b)

\* a returned list in which a constraint moved a later unit in front of an earlier one
SortRespectsPrecedenceWitness ==
    /\ phase = "returned"
    /\ \E a, b \in Units :
        /\ MustPrecede(a, b)
        /\ b < a
        /\ Pos(sorted, a) < Pos(sorted, b)

\* C2: when the constraints among the registered units contain a cycle (a unit
\* naming itself included), sortConfigers never returns a list: every step of
\* the sort can be continued and the sort ends in the panic
CycleIsFatal ==
    /\ phase = "returned" => ~HasCycle
    /\ phase = "sorting" =>
        ENABLED (SortNext \/ FoundCycle \/ Recurse \/ SkipDep \/ Finish \/ Return)
    /\ (phase = "sorting" /\ stack = <<>> /\ HasCycle) => Len(toSort) > 0

\* the panic raised for a cycle of more than one unit, and for a unit naming itself
CycleIsFatalWitness ==
    /\ phase = "panic"
    /\ HasCycle
    /\ Len(cycle) > 2

\* C3: the chain reported by the panic is the part of processing from the
\* dependency found there up to the current unit, followed by the dependency
\* again; every consecutive pair of it is a precedence constraint, no unit
\* occurs twice on it apart from its two ends, and for A before B, B before C,
\* C before A it names A, B and C
CycleReportIsCycle ==
    phase = "panic" =>
        LET n == Len(cycle)
            m == Len(processing)
        IN  /\ n >= 2
            /\ n - 1 <= m
            /\ SubSeq(cycle, 1, n - 1) = SubSeq(processing, m - n + 2, m)
            /\ processing[m] = Top.current
            /\ cycle[1] = Dep
            /\ cycle[n] = Dep
            /\ \A k \in 1..(n - 1) : MustPrecede(cycle[k + 1], cycle[k])
            /\ \A j, k \in 1..(n - 1) : cycle[j] = cycle[k] => j = k
            /\ ( /\ configers[1].before = <<"B">> /\ configers[1].after = <<>>
                 /\ configers[2].before = <<"C">> /\ configers[2].after = <<>>
                 /\ configers[3].before = <<"A">> /\ configers[3].after = <<>>
                 /\ \A u \in Units \ {1, 2, 3} :
                        configers[u].before = <<>> /\ configers[u].after = <<>> )
               => {configers[cycle[k]].name : k \in 1..n} = {"A", "B", "C"}

\* a cycle found below a unit that is not on it
CycleReportIsCycleWitness ==
    /\ phase = "panic"
    /\ Len(cycle) > 2
    /\ Len(cycle) - 1 < Len(processing)

\* the three units of the example, in the roles of A, B and C
ExampleRoles(a, b, c) ==
    /\ a # b /\ a # c /\ b # c
    /\ configers[a].before = <<>> /\ configers[a].after = <<>>
    /\ configers[b].before = <<>> /\ configers[b].after = <<configers[a].name>>
    /\ configers[c].before = <<configers[b].name>> /\ configers[c].after = <<>>
    /\ \A u \in Units \ {a, b, c} :
        configers[u].before = <<>> /\ configers[u].after = <<>>

\* C4 as stated: for A (no constraints), B (after A), C (before B) in any input
\* order, A precedes both B and C in the result, and C precedes B
ExampleOrderAnyInput ==
    phase = "returned" =>
        \A a, b, c \in Units :
            ExampleRoles(a, b, c) =>
                /\ Pos(sorted, a) < Pos(sorted, b)
                /\ Pos(sorted, a) < Pos(sorted, c)
                /\ Pos(sorted, c) < Pos(sorted, b)

\* C4 amended: for A (no constraints), B (after A), C (before B) in any input
\* order, A and C both precede B in the result, and A precedes C exactly when
\* A stands before C in the input
ExampleOrder ==
    phase = "returned" =>
        \A a, b, c \in Units :
            ExampleRoles(a, b, c) =>
                /\ Pos(sorted, a) < Pos(sorted, b)
                /\ Pos(sorted, c) < Pos(sorted, b)
                /\ (Pos(sorted, a) < Pos(sorted, c)) <=> (a < c)

\* the example sorted from an input order in which B comes first
ExampleOrderWitness ==
    /\ phase = "returned"
    /\ \E a, c \in Units : ExampleRoles(a, 1, c) /\ a < c

\* C5 as stated: two units that no chain of constraints links in either
\* direction keep their input order in the returned list
TiesKeepInputOrderAlways ==
    phase = "returned" =>
        \A u, v \in Units :
            (u < v /\ ~Linked(u, v)) => Pos(sorted, u) < Pos(sorted, v)

\* C5 amended: a unit v that stands after u in the input is returned in front
\* of u only when v must precede, through a chain of constraints, u or a unit
\* that stands before u in the input; with no constraint at all the returned
\* list is the input list
TiesKeepInputOrder ==
    phase = "returned" =>
        /\ \A u, v \in Units :
            (u < v /\ Pos(sorted, v) < Pos(sorted, u)) =>
                \E w \in 1..u : v \in TransPreds(w)
        /\ (\A a, b \in Units : ~MustPrecede(a, b)) => sorted = InputOrder

\* an unlinked pair returned against its input order, and an unconstrained input
TiesKeepInputOrderWitness ==
    /\ phase = "returned"
    /\ \E u, v \in Units :
        /\ u < v
        /\ ~Linked(u, v)
        /\ Pos(sorted, v) < Pos(sorted, u)

\* C6: whenever sortConfigers returns, the returned list holds every unit of
\* the input exactly once and nothing else
SortedIsPermutation ==
    phase = "returned" =>
        /\ Len(sorted) = NumUnits
        /\ \A u \in Units : Count(sorted, u) = 1

\* a returned list for an input in which one unit is a dependency of two others
\* and is named twice for one of them
SortedIsPermutationWitness ==
    /\ phase = "returned"
    /\ \E u, v, w \in Units :
        /\ v # w
        /\ MustPrecede(u, v)
        /\ MustPrecede(u, w)
        /\ Len(getBeforeConfigers(configers, v)) > 1

\* the set of the units on a list
SetOf(l) == {l[i] : i \in 1..Len(l)}

\* the units whose visit was entered by the recursive call
Recursed == {stack[k].current : k \in 2..Len(stack)}

\* C12 as stated: at every step of sortConfigers no unit is on two of the
\* lists toSort, sorted and processing, also while a dependency is visited
\* recursively
ListsPairwiseDisjoint ==
    /\ SetOf(toSort) \cap SetOf(sorted) = {}
    /\ SetOf(sorted) \cap SetOf(processing) = {}
    /\ SetOf(toSort) \cap SetOf(processing) = {}

\* C12 amended: at every step of sortConfigers sorted shares no unit with
\* toSort or with processing; the units on both toSort and processing are
\* exactly the dependencies being visited recursively, which leave toSort
\* only when their visit ends (the unit popped at the top level has left it)
SortedIsDisjoint ==
    /\ SetOf(toSort) \cap SetOf(sorted) = {}
    /\ SetOf(sorted) \cap SetOf(processing) = {}
    /\ SetOf(toSort) \cap SetOf(processing) = Recursed
    /\ Len(stack) > 0 => stack[1].current \notin SetOf(toSort)

\* a dependency is being visited recursively: it is on processing and still
\* on toSort, and a unit is already sorted
SortedIsDisjointWitness ==
    /\ phase = "sorting"
    /\ Len(stack) = 2
    /\ Top.current \in SetOf(toSort) \cap SetOf(processing)
    /\ sorted # <<>>

====
